---- MODULE Spec2Model ----
(***************************************************************************)
(* A model of the ray tracer: tuple and matrix algebra, the Intersections  *)
(* collection, sphere intersection, Phong lighting, the world's shading    *)
(* and the camera's parallel render.                                       *)
(*                                                                         *)
(* Numbers.  The program computes in f64.  The model computes in binary    *)
(* fixed point: a number v is the integer v * Unit, Unit = 2^FracBits, and *)
(* every product, quotient and square root is rounded to the nearest       *)
(* multiple of 1/Unit (ties away from zero), as f64 rounds to the nearest  *)
(* representable value.  Dyadic values (1, 2, 0.5, 0.125 ...) are exact in *)
(* both.  The tolerance EPSILON of the program's equality is two steps of  *)
(* the grid, so that values closer than, at and beyond the tolerance all   *)
(* exist.                                                                  *)
(*                                                                         *)
(* Indices run from 1 (Sequences), where the program's run from 0.         *)
(***************************************************************************)
EXTENDS Integers, Sequences, FiniteSets, TLC

\* ------------------------------------------------------------------ bounds

\* Fractional bits of the fixed-point grid.
FracBits == 8

Unit == 2 ^ FracBits

\* ------------------------------------------------------------- arithmetic

Abs(a) == IF a < 0 THEN -a ELSE a

\* v as a number of the grid
Num(v) == v * Unit

Half == Unit \div 2

\* a * b, rounded to nearest
fmul(a, b) ==
    LET p == a * b
    IN  IF p >= 0 THEN (p + Half) \div Unit ELSE -((Half - p) \div Unit)

\* a / b, rounded to nearest (b /= 0: the inputs of the model never divide by 0)
fdiv(a, b) ==
    LET n == Abs(a) * Unit
        d == Abs(b)
        q == (n + d \div 2) \div d
    IN  IF (a < 0) /= (b < 0) THEN -q ELSE q

\* f64::recip
recip(a) == fdiv(Unit, a)

RECURSIVE isqrtIter(_, _)
isqrtIter(n, x) ==
    LET y == (x + n \div x) \div 2
    IN  IF y >= x THEN x ELSE isqrtIter(n, y)

\* floor of the integer square root
isqrt(n) == IF n <= 0 THEN 0 ELSE isqrtIter(n, n)

\* f64::sqrt of a >= 0, rounded to nearest
fsqrt(a) ==
    LET n == a * Unit
        r == isqrt(n)
    IN  IF n - r * r > r THEN r + 1 ELSE r

RECURSIVE fpowi(_, _)
\* f64::powf(x, n) for a whole exponent n >= 0, by squaring
fpowi(x, n) ==
    IF n = 0 THEN Unit
    ELSE IF n % 2 = 1 THEN fmul(x, fpowi(x, n - 1))
    ELSE LET h == fpowi(x, n \div 2) IN fmul(h, h)

\* ------------------------------------------------------------------ tuple

\* tuple.rs: const EPSILON (1e-5), two steps of the grid
EPSILON == 2

Tuple_new(x, y, z, w) == [x |-> x, y |-> y, z |-> z, w |-> w]

Tuple_zero == Tuple_new(0, 0, 0, 0)

is_point(t) == Abs(t.w - Unit) < EPSILON

is_vector(t) == Abs(t.w) < EPSILON

Tuple_add(a, b) == Tuple_new(a.x + b.x, a.y + b.y, a.z + b.z, a.w + b.w)

Tuple_sub(a, b) == Tuple_new(a.x - b.x, a.y - b.y, a.z - b.z, a.w - b.w)

Tuple_neg(a) == Tuple_sub(Tuple_zero, a)

Tuple_mul(a, s) == Tuple_new(fmul(a.x, s), fmul(a.y, s), fmul(a.z, s), fmul(a.w, s))

Tuple_div(a, s) == Tuple_new(fdiv(a.x, s), fdiv(a.y, s), fdiv(a.z, s), fdiv(a.w, s))

magnitude(t) == fsqrt(fmul(t.x, t.x) + fmul(t.y, t.y) + fmul(t.z, t.z) + fmul(t.w, t.w))

normalize(t) == Tuple_div(t, magnitude(t))

dot(a, b) == fmul(a.x, b.x) + fmul(a.y, b.y) + fmul(a.z, b.z) + fmul(a.w, b.w)

Tuple_eq(a, b) ==
    /\ Abs(a.x - b.x) < EPSILON
    /\ Abs(a.y - b.y) < EPSILON
    /\ Abs(a.z - b.z) < EPSILON
    /\ Abs(a.w - b.w) < EPSILON

\* A Result: Ok(v) or Err(e)
Ok(v) == [ok |-> TRUE, val |-> v]

Err(e) == [ok |-> FALSE, err |-> e]

Vector_new(x, y, z) == Tuple_new(x, y, z, 0)

Point_new(x, y, z) == Tuple_new(x, y, z, Unit)

Vector_try_from(t) ==
    IF is_vector(t) THEN Ok(t) ELSE Err("failed to convert a tuple into a vector")

\* a conversion that takes every tuple
Point_try_from_unchecked(t) == Ok(t)

Point_try_from(t) ==
    IF is_point(t) THEN Ok(t) ELSE Err("failed to convert a tuple into a point")

\* reflect: v - normal * 2 * dot(v, normal)
reflect(v, normal) ==
    Tuple_sub(v, Tuple_mul(Tuple_mul(normal, Num(2)), dot(v, normal)))

\* ----------------------------------------------------------------- matrix
\* A Matrix is the sequence of its rows: data[y][x].

Dim(m) == Len(m)

Matrix_identity(size) ==
    [y \in 1..size |-> [x \in 1..size |-> IF x = y THEN Unit ELSE 0]]

transpose(m) ==
    [x \in 1..Len(m[1]) |-> [y \in 1..Len(m) |-> m[y][x]]]

\* drop row `row` and column `col`
submatrix(m, row, col) ==
    LET D == Dim(m)
        keep(i, k) == IF i < k THEN i ELSE i + 1
    IN  [y \in 1..(D - 1) |-> [x \in 1..(D - 1) |-> m[keep(y, row)][keep(x, col)]]]

RECURSIVE Sum(_)
\* the terms of s added from the first to the last, as `sum += ...` in a loop
Sum(s) == IF s = << >> THEN 0 ELSE Sum(SubSeq(s, 1, Len(s) - 1)) + s[Len(s)]

RECURSIVE determinant(_)
\* Rows and columns are counted from 1 here: (row + col) has the parity of the
\* program's (row - 1) + (col - 1).  A cofactor without the alternating sign:
cofactor_sign_none(row, col) == Unit

\* the sign of the program's cofactor
cofactor_sign(row, col) == IF (row + col) % 2 = 1 THEN -Unit ELSE Unit

minor(m, row, col) == determinant(submatrix(m, row, col))

cofactor(m, row, col) == fmul(minor(m, row, col), cofactor_sign(row, col))

determinant(m) ==
    IF Dim(m) = 2
    THEN fmul(m[1][1], m[2][2]) - fmul(m[1][2], m[2][1])
    ELSE Sum([i \in 1..Dim(m) |-> fmul(m[1][i], cofactor(m, 1, i))])

invertible(m) == determinant(m) /= 0

Matrix_scale(m, s) ==
    [y \in 1..Len(m) |-> [x \in 1..Len(m[1]) |-> fmul(m[y][x], s)]]

Matrix_div(m, s) == Matrix_scale(m, recip(s))

\* the cofactors divided by the determinant, without the transposition
inverse_untransposed(m) ==
    IF ~invertible(m)
    THEN Err("matrix not invertible")
    ELSE Ok(Matrix_div([y \in 1..Dim(m) |-> [x \in 1..Dim(m) |-> cofactor(m, y, x)]],
                       determinant(m)))

inverse(m) ==
    IF ~invertible(m)
    THEN Err("matrix not invertible")
    ELSE LET D == Dim(m)
             cofactors == [y \in 1..D |-> [x \in 1..D |-> cofactor(m, y, x)]]
             det == determinant(m)
         IN  Ok(Matrix_div(transpose(cofactors), det))

\* the product with its operands exchanged
Matrix_mul_reversed(lhs, rhs) ==
    [y \in 1..Len(lhs) |->
        [x \in 1..Len(rhs[1]) |->
            Sum([i \in 1..Len(rhs[1]) |-> fmul(rhs[y][i], lhs[i][x])])]]

\* W columns, H rows on the left; H columns, L rows on the right (Matrix<W, H>
\* holds H rows of W entries).  The loops are the program's: L rows and W
\* columns of sums over W terms.
Matrix_mul(lhs, rhs) ==
    LET W == Len(lhs[1])
        L == Len(rhs)
    IN  [y \in 1..L |->
            [x \in 1..W |-> Sum([i \in 1..W |-> fmul(lhs[y][i], rhs[i][x])])]]

\* &SquareMatrix<4> * T, T: Into<Tuple>
\* The call lhs * rhs for lhs : Matrix<W, H> (H rows of W entries) and
\* rhs : Matrix<H, L> (L rows of H entries): the loops read self.data[y][i] and
\* rhs.data[i][x] for y in 0..L, x in 0..W, i in 0..W, and an index outside an
\* array panics; the rows collected have W entries and there are L of them, so
\* the two try_into().unwrap() succeed.
Matrix_mul_call(lhs, rhs) ==
    LET W == Len(lhs[1])
        H == Len(lhs)
        L == Len(rhs)
    IN  IF L <= H /\ W <= L /\ W <= Len(rhs[1])
        THEN [panicked |-> FALSE, val |-> Matrix_mul(lhs, rhs)]
        ELSE [panicked |-> TRUE, msg |-> "index out of bounds"]

Matrix_mul_tuple(m, t) ==
    LET row(y) == fmul(m[y][1], t.x) + fmul(m[y][2], t.y)
                  + fmul(m[y][3], t.z) + fmul(m[y][4], t.w)
    IN  Tuple_new(row(1), row(2), row(3), row(4))

\* PartialEq for Matrix: unequal when some entry differs by more than 0.00001
Matrix_eq(a, b) ==
    \A y \in 1..Len(a) : \A x \in 1..Len(a[1]) : ~(Abs(a[y][x] - b[y][x]) > EPSILON)

\* --------------------------------------------------------------- options

None == [some |-> FALSE]

Some(v) == [some |-> TRUE, val |-> v]

\* the result slot of an operation that has not been called
NotCalled == [called |-> FALSE]

\* ---------------------------------------------------------- intersections
\* An Intersection is [t, object]; object stands for the &Sphere it borrows.

Intersection_new(t, object) == [t |-> t, object |-> object]

Intersections_new == << >>

RECURSIVE insert_sorted(_, _)
\* place e after every element that is not greater than it
insert_sorted(s, e) ==
    IF s = << >> THEN <<e>>
    ELSE IF e.t < s[1].t THEN <<e>> \o s
    ELSE <<s[1]>> \o insert_sorted(Tail(s), e)

RECURSIVE sort_by_t(_)
\* slice::sort_by on t: a stable sort
sort_by_t(s) ==
    IF s = << >> THEN << >>
    ELSE insert_sorted(sort_by_t(SubSeq(s, 1, Len(s) - 1)), s[Len(s)])

Intersections_push(self, intersection) == sort_by_t(Append(self, intersection))

\* a concat that appends and does not sort
Intersections_concat_appended(self, other) == self \o other

Intersections_concat(self, other) == sort_by_t(self \o other)

\* From<Vec<Intersection>>: the vector is taken as it is
Intersections_from(x) == x

\* the closure of hit's reduce
hit_pick(a, b) == IF a.t < b.t THEN a ELSE b

\* a filter that drops t = 0 as well
hit_keep_positive(x) == x.t > 0

\* the test of hit's filter
hit_keep(x) == x.t >= 0

RECURSIVE hit_reduce(_, _)
\* Iterator::reduce over hit's closure: acc starts as the first element
hit_reduce(acc, rest) ==
    IF rest = << >> THEN acc ELSE hit_reduce(hit_pick(acc, rest[1]), Tail(rest))

hit(self) ==
    LET kept == SelectSeq(self, hit_keep)
    IN  IF kept = << >> THEN None ELSE Some(hit_reduce(kept[1], Tail(kept)))

\* Result::unwrap / Result::expect of an Ok value.  On an Err the program
\* panics; the operations that can meet one model the panic themselves.
unwrap(r) == r.val

\* ------------------------------------------------------------------ color

Color_new(red, green, blue) == [red |-> red, green |-> green, blue |-> blue]

BLACK == Color_new(0, 0, 0)

Color_add(a, b) == Color_new(a.red + b.red, a.green + b.green, a.blue + b.blue)

Color_scale(a, s) == Color_new(fmul(a.red, s), fmul(a.green, s), fmul(a.blue, s))

Color_mul(a, b) ==
    Color_new(fmul(a.red, b.red), fmul(a.green, b.green), fmul(a.blue, b.blue))

\* -------------------------------------------------------- transformations

translation(x, y, z) ==
    << <<Unit, 0, 0, x>>, <<0, Unit, 0, y>>, <<0, 0, Unit, z>>, <<0, 0, 0, Unit>> >>

scaling(x, y, z) ==
    << <<x, 0, 0, 0>>, <<0, y, 0, 0>>, <<0, 0, z, 0>>, <<0, 0, 0, Unit>> >>

shearing(x_y, x_z, y_x, y_z, z_x, z_y) ==
    << <<Unit, x_y, x_z, 0>>, <<y_x, Unit, y_z, 0>>, <<z_x, z_y, Unit, 0>>,
       <<0, 0, 0, Unit>> >>

\* Point - Point, Vector - Vector: (Tuple - Tuple).try_into().unwrap()
Point_sub(a, b) == unwrap(Vector_try_from(Tuple_sub(a, b)))

Vector_normalize(v) == unwrap(Vector_try_from(normalize(v)))

cross(a, b) ==
    Vector_new(fmul(a.y, b.z) - fmul(a.z, b.y),
               fmul(a.z, b.x) - fmul(a.x, b.z),
               fmul(a.x, b.y) - fmul(a.y, b.x))

view_transform(from, to, up) ==
    LET forward == Vector_normalize(Point_sub(to, from))
        left == cross(forward, Vector_normalize(up))
        true_up == cross(left, forward)
        orientation ==
            << <<left.x, left.y, left.z, 0>>,
               <<true_up.x, true_up.y, true_up.z, 0>>,
               <<-forward.x, -forward.y, -forward.z, 0>>,
               <<0, 0, 0, Unit>> >>
    IN  Matrix_mul(orientation, translation(-from.x, -from.y, -from.z))

\* -------------------------------------------------------------------- ray

Ray_new(origin, direction) == [origin |-> origin, direction |-> direction]

Ray_position(self, t) ==
    unwrap(Point_try_from(Tuple_add(self.origin, Tuple_mul(self.direction, t))))

\* the matrix applied to the origin and to the direction
Ray_transform(self, m) ==
    Ray_new(Matrix_mul_tuple(m, self.origin), Matrix_mul_tuple(m, self.direction))

\* ------------------------------------------------------- material, light

Material_new(color, ambient, diffuse, specular, shininess) ==
    [color |-> color, ambient |-> ambient, diffuse |-> diffuse,
     specular |-> specular, shininess |-> shininess]

\* ambient 0.1, diffuse 0.9, specular 0.9, shininess 200.0, on the grid
Material_default ==
    Material_new(Color_new(Unit, Unit, Unit), fdiv(Num(1), Num(10)),
                 fdiv(Num(9), Num(10)), fdiv(Num(9), Num(10)), Num(200))

PointLight_new(position, intensity) == [intensity |-> intensity, position |-> position]

\* a lighting that never looks at in_shadow
lighting_unshadowed(material, light, point, eyev, normalv, in_shadow) ==
    LET effective_color == Color_mul(material.color, light.intensity)
        lightv == Vector_normalize(Point_sub(light.position, point))
        ambient == Color_scale(effective_color, material.ambient)
        light_dot_normal == dot(lightv, normalv)
        diffuse == Color_scale(Color_scale(effective_color, material.diffuse),
                               light_dot_normal)
        reflect_dot_eye == dot(Tuple_neg(reflect(lightv, normalv)), eyev)
        specular ==
            IF reflect_dot_eye <= 0 THEN BLACK
            ELSE Color_scale(Color_scale(light.intensity, material.specular),
                             fpowi(reflect_dot_eye, material.shininess \div Unit))
    IN  IF light_dot_normal < 0 THEN ambient
        ELSE Color_add(Color_add(ambient, diffuse), specular)

lighting(material, light, point, eyev, normalv, in_shadow) ==
    LET effective_color == Color_mul(material.color, light.intensity)
        lightv == Vector_normalize(Point_sub(light.position, point))
        ambient == Color_scale(effective_color, material.ambient)
        light_dot_normal == dot(lightv, normalv)
        diffuse == Color_scale(Color_scale(effective_color, material.diffuse),
                               light_dot_normal)
        reflectv == Tuple_neg(reflect(lightv, normalv))
        reflect_dot_eye == dot(reflectv, eyev)
        factor == fpowi(reflect_dot_eye, material.shininess \div Unit)
        specular ==
            IF reflect_dot_eye <= 0 THEN BLACK
            ELSE Color_scale(Color_scale(light.intensity, material.specular), factor)
    IN  IF in_shadow THEN ambient
        ELSE IF light_dot_normal < 0 THEN Color_add(Color_add(ambient, BLACK), BLACK)
        ELSE Color_add(Color_add(ambient, diffuse), specular)

\* ----------------------------------------------------------------- sphere

Sphere_with(id, transform, inv_transform, material) ==
    [id |-> id, transform |-> transform, inv_transform |-> inv_transform,
     material |-> material]

\* What a call comes to: it returns a value, or it panics with a message.
Returned(v) == [panicked |-> FALSE, val |-> v]

Panicked(msg) == [panicked |-> TRUE, msg |-> msg]

\* Result::expect(msg)
expect(r, msg) == IF r.ok THEN Returned(r.val) ELSE Panicked(msg)

\* Sphere::new, count being what COUNT.fetch_add(1) returns
Sphere_new(count) ==
    Sphere_with(count, Matrix_identity(4), Matrix_identity(4), Material_default)

\* a set_transform that leaves the cached inverse as it was
Sphere_set_transform_uncached(self, transform) ==
    LET inv == expect(inverse(transform), "Fail to inverse sphere transform")
    IN  IF inv.panicked THEN inv
        ELSE Returned([self EXCEPT !.transform = transform])

Sphere_set_transform(self, transform) ==
    LET inv == expect(inverse(transform), "Fail to inverse sphere transform")
    IN  IF inv.panicked THEN inv
        ELSE Returned([self EXCEPT !.inv_transform = inv.val, !.transform = transform])

\* a set_material that starts from the fields of a new sphere
Sphere_set_material_reset(self, material) ==
    [self EXCEPT !.material = material, !.transform = Matrix_identity(4),
                 !.inv_transform = Matrix_identity(4)]

Sphere_set_material(self, material) == [self EXCEPT !.material = material]

\* PartialEq for Color
Color_eq(a, b) ==
    /\ Abs(a.red - b.red) < EPSILON
    /\ Abs(a.green - b.green) < EPSILON
    /\ Abs(a.blue - b.blue) < EPSILON

\* #[derive(PartialEq)] of Sphere, over the derived one of Material
Sphere_eq(a, b) ==
    /\ a.id = b.id
    /\ Matrix_eq(a.transform, b.transform)
    /\ Matrix_eq(a.inv_transform, b.inv_transform)
    /\ Color_eq(a.material.color, b.material.color)
    /\ a.material.ambient = b.material.ambient
    /\ a.material.diffuse = b.material.diffuse
    /\ a.material.specular = b.material.specular
    /\ a.material.shininess = b.material.shininess

\* a read of the counter where the program reads and adds in one step
fetch_add_load(count, n) == [old |-> count, new |-> count]

\* AtomicU32::fetch_add: the value before, and the counter after.  The u32
\* wraps after 2^32 additions, which no run of the model comes near.
fetch_add(count, n) == [old |-> count, new |-> count + n]

\* the two intersections in the other order
Sphere_intersect_far_first(self, ray0) ==
    LET ray == Ray_transform(ray0, self.inv_transform)
        sphere_to_ray == Point_sub(ray.origin, Point_new(0, 0, 0))
        a == dot(ray.direction, ray.direction)
        b == fmul(Num(2), dot(ray.direction, sphere_to_ray))
        c == dot(sphere_to_ray, sphere_to_ray) - Unit
        discriminant == fmul(b, b) - fmul(fmul(Num(4), a), c)
        t1 == fdiv(-b - fsqrt(discriminant), fmul(Num(2), a))
        t2 == fdiv(-b + fsqrt(discriminant), fmul(Num(2), a))
    IN  IF discriminant < 0 THEN Intersections_new
        ELSE Intersections_from(<<Intersection_new(t2, self), Intersection_new(t1, self)>>)

\* inverting self.transform for every ray, and reporting a miss where that fails
Sphere_intersect_reinvert(self, ray0) ==
    LET inv == inverse(self.transform)
        ray == Ray_transform(ray0, inv.val)
        sphere_to_ray == Point_sub(ray.origin, Point_new(0, 0, 0))
        a == dot(ray.direction, ray.direction)
        b == fmul(Num(2), dot(ray.direction, sphere_to_ray))
        c == dot(sphere_to_ray, sphere_to_ray) - Unit
        discriminant == fmul(b, b) - fmul(fmul(Num(4), a), c)
        t1 == fdiv(-b - fsqrt(discriminant), fmul(Num(2), a))
        t2 == fdiv(-b + fsqrt(discriminant), fmul(Num(2), a))
    IN  IF ~inv.ok \/ discriminant < 0 THEN Intersections_new
        ELSE Intersections_from(<<Intersection_new(t1, self), Intersection_new(t2, self)>>)

Sphere_intersect(self, ray0) ==
    LET ray == Ray_transform(ray0, self.inv_transform)
        origin == ray.origin
        direction == ray.direction
        sphere_to_ray == Point_sub(origin, Point_new(0, 0, 0))
        a == dot(direction, direction)
        b == fmul(Num(2), dot(direction, sphere_to_ray))
        c == dot(sphere_to_ray, sphere_to_ray) - Unit
        discriminant == fmul(b, b) - fmul(fmul(Num(4), a), c)
        t1 == fdiv(-b - fsqrt(discriminant), fmul(Num(2), a))
        t2 == fdiv(-b + fsqrt(discriminant), fmul(Num(2), a))
    IN  IF discriminant < 0 THEN Intersections_new
        ELSE Intersections_from(<<Intersection_new(t1, self), Intersection_new(t2, self)>>)

normal_at(self, world_p) ==
    LET object_p == Matrix_mul_tuple(self.inv_transform, world_p)
        object_normal == Point_sub(unwrap(Point_try_from(object_p)), Point_new(0, 0, 0))
        world_normal == Matrix_mul_tuple(transpose(self.inv_transform), object_normal)
    IN  Vector_normalize([world_normal EXCEPT !.w = 0])

\* ---------------------------------------------------------- computations

\* setting the inside flag and leaving the normal as it is
prepare_computations_unflipped(self, ray) ==
    LET point == Ray_position(ray, self.t)
        eyev == unwrap(Vector_try_from(Tuple_neg(ray.direction)))
        normal == normal_at(self.object, point)
    IN  [t |-> self.t, object |-> self.object, point |-> point, eyev |-> eyev,
         normal |-> normal, inside |-> dot(normal, eyev) < 0,
         over_point |-> unwrap(Point_try_from(Tuple_add(point, Tuple_mul(normal, EPSILON))))]

prepare_computations(self, ray) ==
    LET point == Ray_position(ray, self.t)
        eyev == unwrap(Vector_try_from(Tuple_neg(ray.direction)))
        normal0 == normal_at(self.object, point)
        inside == dot(normal0, eyev) < 0
        normal == IF inside THEN Tuple_neg(normal0) ELSE normal0
    IN  [t |-> self.t, object |-> self.object, point |-> point, eyev |-> eyev,
         normal |-> normal, inside |-> inside,
         over_point |-> unwrap(Point_try_from(Tuple_add(point, Tuple_mul(normal, EPSILON))))]

\* ------------------------------------------------------------------ world
\* A World is [objects, lights], each a sequence (Vec).

World_new == [objects |-> << >>, lights |-> << >>]

RECURSIVE World_intersect_loop(_, _, _)
\* the for loop of World::intersect over the objects still to visit
World_intersect_loop(intersections, objects, ray) ==
    IF objects = << >> THEN intersections
    ELSE World_intersect_loop(
             Intersections_concat(intersections, Sphere_intersect(objects[1], ray)),
             Tail(objects), ray)

World_intersect(self, ray) == World_intersect_loop(Intersections_new, self.objects, ray)

\* The call of lighting in World::shade_hit: material, light, point, eyev and
\* normal, and no shadow state.  It is the call of a lighting that has no
\* shadow branch, which is lighting with in_shadow false.
shade_hit_lighting(comp, light) ==
    lighting(comp.object.material, light, comp.point, comp.eyev, comp.normal, FALSE)

RECURSIVE shade_hit_loop_last(_, _, _)
\* a loop that assigns where the program accumulates
shade_hit_loop_last(c, lights, comp) ==
    IF lights = << >> THEN c
    ELSE shade_hit_loop_last(shade_hit_lighting(comp, lights[1]), Tail(lights), comp)

RECURSIVE shade_hit_loop(_, _, _)
\* the for loop of World::shade_hit over the lights still to visit
shade_hit_loop(c, lights, comp) ==
    IF lights = << >> THEN c
    ELSE shade_hit_loop(Color_add(c, shade_hit_lighting(comp, lights[1])),
                        Tail(lights), comp)

shade_hit(self, comp) == shade_hit_loop(Color_new(0, 0, 0), self.lights, comp)

\* shading the first intersection of the sorted collection, whatever its t
color_at_first(self, ray) ==
    LET inters == World_intersect(self, ray)
    IN  IF inters /= << >>
        THEN shade_hit(self, prepare_computations(inters[1], ray))
        ELSE BLACK

color_at(self, ray) ==
    LET inters == World_intersect(self, ray)
        h == hit(inters)
    IN  IF h.some THEN shade_hit(self, prepare_computations(h.val, ray)) ELSE BLACK

\* ----------------------------------------------------------------- canvas
\* pixels is the Vec<Color>, pixel (x, y) at index y * width + x (from 0).

Canvas_new(width, height) ==
    [width |-> width, height |-> height,
     pixels |-> [i \in 1..(width * height) |-> Color_new(0, 0, 0)]]

\* indexing the buffer by columns
write_pixel_by_column(self, x, y, color) ==
    IF x < 0 \/ x >= self.width \/ y < 0 \/ y >= self.height
    THEN self
    ELSE [self EXCEPT !.pixels[x * self.height + y + 1] = color]

\* writing the whole row y
write_pixel_row(self, x, y, color) ==
    IF x < 0 \/ x >= self.width \/ y < 0 \/ y >= self.height
    THEN self
    ELSE [self EXCEPT !.pixels = [i \in 1..Len(self.pixels) |->
              IF (i - 1) \div self.width = y THEN color ELSE self.pixels[i]]]

\* writing at the nearest coordinate of the canvas
write_pixel_clamped(self, x, y, color) ==
    LET cx == IF x < 0 THEN 0 ELSE IF x >= self.width THEN self.width - 1 ELSE x
        cy == IF y < 0 THEN 0 ELSE IF y >= self.height THEN self.height - 1 ELSE y
    IN  [self EXCEPT !.pixels[cy * self.width + cx + 1] = color]

write_pixel(self, x, y, color) ==
    IF x < 0 \/ x >= self.width \/ y < 0 \/ y >= self.height
    THEN self
    ELSE [self EXCEPT !.pixels[y * self.width + x + 1] = color]

\* a read that checks the coordinate
read_pixel_checked(self, x, y) ==
    IF x < 0 \/ x >= self.width \/ y < 0 \/ y >= self.height
    THEN Err("ReadError")
    ELSE Ok(self.pixels[y * self.width + x + 1])

\* panics when the index is outside the buffer
read_pixel(self, x, y) == Ok(self.pixels[y * self.width + x + 1])

\* A String is the sequence of its characters.

\* format!("{}", n) of a u32
u32_to_string(n) ==
    LET digit(d) == <<"0", "1", "2", "3", "4", "5", "6", "7", "8", "9">>[d + 1]
        RECURSIVE digits(_)
        digits(k) == IF k < 10 THEN <<digit(k)>> ELSE digits(k \div 10) \o <<digit(k % 10)>>
    IN  digits(n)

\* (f * 256.).clamp(0., 255.) as u32
to255(f) ==
    LET scaled == fmul(f, Num(256))
        clamped == IF scaled < 0 THEN 0 ELSE IF scaled > Num(255) THEN Num(255) ELSE scaled
    IN  clamped \div Unit

Color_to_string(self) ==
    u32_to_string(to255(self.red)) \o <<" ">> \o u32_to_string(to255(self.green))
        \o <<" ">> \o u32_to_string(to255(self.blue))

\* one cut only: the rest of the text is not wrapped
line_wrap_once(s) ==
    IF Len(s) <= 70 THEN s
    ELSE LET spaces == { i \in 0..69 : s[i + 1] = " " }
         IN  IF spaces = {} THEN s
             ELSE LET i == CHOOSE j \in spaces : \A k \in spaces : k <= j
                  IN  SubSeq(s, 1, i) \o <<"\n">> \o SubSeq(s, i + 2, Len(s))

RECURSIVE line_wrap(_)
\* i is the last index below 70 that holds a space
line_wrap(s) ==
    IF Len(s) <= 70 THEN s
    ELSE LET spaces == { i \in 0..69 : s[i + 1] = " " }
         IN  IF spaces = {} THEN s
             ELSE LET i == CHOOSE j \in spaces : \A k \in spaces : k <= j
                  IN  SubSeq(s, 1, i) \o <<"\n">> \o line_wrap(SubSeq(s, i + 2, Len(s)))

\* reduce(|acc, s| acc + sep + &s) of a sequence of strings: None when empty
reduce_join(strings, sep) ==
    LET RECURSIVE fold(_, _)
        fold(acc, rest) ==
            IF rest = << >> THEN acc ELSE fold(acc \o sep \o rest[1], Tail(rest))
    IN  IF strings = << >> THEN None ELSE Some(fold(strings[1], Tail(strings)))

\* the two unwrap() calls panic on a canvas without columns or without rows
to_ppm(self) ==
    LET header == <<"P", "3", "\n">> \o u32_to_string(self.width) \o <<" ">>
                      \o u32_to_string(self.height) \o <<"\n", "2", "5", "5">>
        row(y) == reduce_join([x \in 1..self.width |->
                      Color_to_string(unwrap(read_pixel(self, x - 1, y)))], <<" ">>)
    IN  IF self.height > 0 /\ self.width <= 0
        THEN Panicked("called Option::unwrap() on a None value")
        ELSE LET body == reduce_join([y \in 1..self.height |-> line_wrap(row(y - 1).val)],
                                     <<"\n">>)
             IN  IF ~body.some
                 THEN Panicked("called Option::unwrap() on a None value")
                 ELSE Returned(header \o <<"\n">> \o body.val \o <<"\n">>)

\* ----------------------------------------------------------------- camera
\* half_view stands for (field_of_view / 2).tan().

Camera_new(hsize, vsize, half_view) ==
    LET aspect == fdiv(Num(hsize), Num(vsize))
        half_width == IF aspect >= Unit THEN half_view ELSE fmul(half_view, aspect)
        half_height == IF aspect >= Unit THEN fdiv(half_view, aspect) ELSE half_view
        pixel_size == fdiv(fmul(half_width, Num(2)), Num(hsize))
    IN  [hsize |-> hsize, vsize |-> vsize, half_view |-> half_view,
         half_width |-> half_width, half_height |-> half_height,
         pixel_size |-> pixel_size,
         transform |-> Matrix_identity(4), inv_transform |-> Matrix_identity(4)]

Camera_set_transform(self, transform) ==
    LET inv == expect(inverse(transform), "Fail to inverse camera matrix")
    IN  IF inv.panicked THEN inv
        ELSE Returned([self EXCEPT !.inv_transform = inv.val, !.transform = transform])

ray_for_pixel(self, x, y) ==
    LET xoffset == fmul(Num(x) + Half, self.pixel_size)
        yoffset == fmul(Num(y) + Half, self.pixel_size)
        world_x == self.half_width - xoffset
        world_y == self.half_height - yoffset
        pixel == unwrap(Point_try_from(
                     Matrix_mul_tuple(self.inv_transform, Point_new(world_x, world_y, -Unit))))
        origin == unwrap(Point_try_from(
                      Matrix_mul_tuple(self.inv_transform, Point_new(0, 0, 0))))
        direction == Vector_normalize(Point_sub(pixel, origin))
    IN  Ray_new(origin, direction)

\* the elements of a sequence
Range(s) == { s[i] : i \in 1..Len(s) }

\* ================================================================== state

VARIABLES
    m_in,       \* the matrix an operation of Matrix is applied to
    m_out,      \* the result of that operation, or NotCalled
    xs,         \* an Intersections value
    hit_out,    \* the result of xs.hit(), or NotCalled
    COUNT,      \* the static counter of Sphere::new
    world,      \* the World
    sh_ray,     \* the ray a World operation is applied to
    sh_out,     \* the result of that operation, or NotCalled
    camera,     \* the Camera
    phase,      \* "setup", "render" (the parallel map), "done", or "panic"
    call,       \* the last set_transform call and its outcome, or NotCalled
    finished,   \* the (x, y, color) the parallel map has produced, in the order produced
    items,      \* the Vec render collects
    image,      \* the Canvas of render
    newers      \* the threads that call Sphere::new: where each is, and what it made

matrix_vars == <<m_in, m_out>>

hit_vars == <<xs, hit_out>>

world_vars == <<COUNT, world>>

shade_vars == <<sh_ray, sh_out>>

render_vars == <<camera, phase, call, finished, items, image>>

vars == <<m_in, m_out, xs, hit_out, COUNT, world, sh_ray, sh_out,
          camera, phase, call, finished, items, image, newers>>

Called(op, res) == [called |-> TRUE, op |-> op, res |-> res]

\* the variables of a part of the program a specification does not run
MatrixIdle == m_in = << >> /\ m_out = NotCalled

HitIdle == xs = Intersections_new /\ hit_out = NotCalled

WorldIdle == COUNT = 0 /\ world = World_new

ShadeIdle == sh_ray = NotCalled /\ sh_out = NotCalled

RenderIdle ==
    /\ camera = None /\ phase = "setup" /\ call = NotCalled
    /\ finished = << >> /\ items = << >> /\ image = None
    /\ newers = << >>

\* ============================================== specification: Matrix

\* the rows the 3x3 and 4x4 input matrices are made of
Rows3 ==
    { <<Unit, 0, 0>>, <<0, Unit, 0>>, <<0, 0, Unit>>, <<Unit, Unit, 0>>,
      <<0, -Unit, Num(2)>>, <<Half, 0, Unit>>, <<0, 0, 0>> }

Rows4 ==
    { <<Unit, 0, 0, 0>>, <<0, Unit, 0, 0>>, <<0, 0, Unit, 0>>, <<0, 0, 0, Unit>>,
      <<Unit, Unit, 0, 0>>, <<0, -Unit, Num(2), 0>>, <<Half, 0, 0, Unit>>,
      <<0, 0, 0, 0>> }

MatrixInputs ==
    { <<a, b, c>> : a \in Rows3, b \in Rows3, c \in Rows3 }
    \cup { <<a, b, c, d>> : a \in Rows4, b \in Rows4, c \in Rows4, d \in Rows4 }

InitMatrix ==
    m_in \in MatrixInputs /\ m_out = NotCalled
    /\ HitIdle /\ WorldIdle /\ ShadeIdle /\ RenderIdle

\* m_in.inverse()
Inverse ==
    /\ m_out = NotCalled
    /\ m_out' = Called("inverse", inverse(m_in))
    /\ UNCHANGED <<m_in, hit_vars, world_vars, shade_vars, render_vars, newers>>

\* a * m_in * m_in.inverse().unwrap(), m_in * its inverse, and the inverse of
\* the inverse, for a 4x4 m_in that has an inverse
MulInverse(a) ==
    /\ m_out = NotCalled
    /\ Len(m_in) = 4
    /\ inverse(m_in).ok
    /\ LET inv == unwrap(inverse(m_in))
       IN  m_out' = Called("mul_inverse",
               [a |-> a, inv |-> inv,
                by_inverse |-> Matrix_mul(m_in, inv),
                there_and_back |-> Matrix_mul(Matrix_mul(a, m_in), inv),
                inverse_of_inverse |-> inverse(inv)])
    /\ UNCHANGED <<m_in, hit_vars, world_vars, shade_vars, render_vars, newers>>

\* (c * b * m_in) * p, and c * (b * (m_in * p)) one product at a time
Chain(c, b, p) ==
    /\ m_out = NotCalled
    /\ Len(m_in) = 4
    /\ LET t == Matrix_mul(Matrix_mul(c, b), m_in)
           p2 == Matrix_mul_tuple(m_in, p)
           p3 == Matrix_mul_tuple(b, p2)
           p4 == Matrix_mul_tuple(c, p3)
       IN  m_out' = Called("chain",
               [c |-> c, b |-> b, p |-> p,
                chained |-> Matrix_mul_tuple(t, p), in_sequence |-> p4])
    /\ UNCHANGED <<m_in, hit_vars, world_vars, shade_vars, render_vars, newers>>

NextMatrix ==
    \/ Inverse
    \/ \E c \in { translation(Num(2), -Unit, Num(3)), transpose(translation(Unit, 0, Num(2))) },
          b \in { scaling(Num(2), Half, -Unit), shearing(Unit, 0, 0, Num(2), 0, -Unit) },
          p \in { Point_new(Unit, 0, Unit), Point_new(-Num(2), Half, Num(3)) } :
            Chain(c, b, p)
    \/ \E a \in { translation(Unit, Num(2), Num(3)), scaling(Num(2), 0, Half),
                   shearing(Unit, 0, 0, Num(2), 0, -Unit) } : MulInverse(a)

SpecMatrix == InitMatrix /\ [][NextMatrix]_vars

\* =============================================== specification: Tuple

\* the w components around the two tags, and a few coordinates
TupleInputs ==
    { Tuple_new(x, y, Num(3), w) :
        x \in {0, Unit, -Num(2)}, y \in {Half, -Unit},
        w \in {0, 1, -1, EPSILON, -EPSILON,
               Unit, Unit + 1, Unit - 1, Unit + EPSILON, Unit - EPSILON} }

InitTuple ==
    m_in \in [a : TupleInputs, b : TupleInputs] /\ m_out = NotCalled
    /\ HitIdle /\ WorldIdle /\ ShadeIdle /\ RenderIdle

\* Point::try_from(m_in.a)
PointTryFrom ==
    /\ m_out = NotCalled
    /\ m_out' = Called("Point::try_from", Point_try_from(m_in.a))
    /\ UNCHANGED <<m_in, hit_vars, world_vars, shade_vars, render_vars, newers>>

\* Vector::try_from(m_in.a)
VectorTryFrom ==
    /\ m_out = NotCalled
    /\ m_out' = Called("Vector::try_from", Vector_try_from(m_in.a))
    /\ UNCHANGED <<m_in, hit_vars, world_vars, shade_vars, render_vars, newers>>

\* Point::new and Vector::new of the coordinates of m_in.a
PointNew ==
    /\ m_out = NotCalled
    /\ m_out' = Called("Point::new", Point_new(m_in.a.x, m_in.a.y, m_in.a.z))
    /\ UNCHANGED <<m_in, hit_vars, world_vars, shade_vars, render_vars, newers>>

VectorNew ==
    /\ m_out = NotCalled
    /\ m_out' = Called("Vector::new", Vector_new(m_in.a.x, m_in.a.y, m_in.a.z))
    /\ UNCHANGED <<m_in, hit_vars, world_vars, shade_vars, render_vars, newers>>

\* p - q for two Points, (Tuple::from(p) - Tuple::from(q)).try_into().unwrap();
\* a Point is a tuple that Point::try_from takes
PointSub ==
    /\ m_out = NotCalled
    /\ Point_try_from(m_in.a).ok /\ Point_try_from(m_in.b).ok
    /\ m_out' = Called("Point::sub",
                    expect(Vector_try_from(Tuple_sub(m_in.a, m_in.b)),
                           "called Result::unwrap() on an Err value"))
    /\ UNCHANGED <<m_in, hit_vars, world_vars, shade_vars, render_vars, newers>>

\* impl_vector_tuple_ops!(Add, add, Vector) and (Sub, sub, Vector):
\* Tuple::from(self).$fn(rhs.into()).try_into().unwrap() for two Vectors
VectorTupleOp(fn) ==
    /\ m_out = NotCalled
    /\ Vector_try_from(m_in.a).ok /\ Vector_try_from(m_in.b).ok
    /\ LET t == IF fn = "add" THEN Tuple_add(m_in.a, m_in.b)
                              ELSE Tuple_sub(m_in.a, m_in.b)
       IN  m_out' = Called(fn, expect(Vector_try_from(t),
                                      "called Result::unwrap() on an Err value"))
    /\ UNCHANGED <<m_in, hit_vars, world_vars, shade_vars, render_vars, newers>>

\* -v for a Vector, Tuple::from(self).neg().try_into().unwrap()
VectorNeg ==
    /\ m_out = NotCalled
    /\ Vector_try_from(m_in.a).ok
    /\ m_out' = Called("neg", expect(Vector_try_from(Tuple_neg(m_in.a)),
                                     "called Result::unwrap() on an Err value"))
    /\ UNCHANGED <<m_in, hit_vars, world_vars, shade_vars, render_vars, newers>>

\* m_in.a == m_in.b as Tuples, and as the one-row matrices
\* Matrix::new([[x, y, z, w]]) of the same components
MatrixEq ==
    /\ m_out = NotCalled
    /\ LET row(t) == << <<t.x, t.y, t.z, t.w>> >>
       IN  m_out' = Called("eq",
               [tuple |-> Tuple_eq(m_in.a, m_in.b),
                matrix |-> Matrix_eq(row(m_in.a), row(m_in.b))])
    /\ UNCHANGED <<m_in, hit_vars, world_vars, shade_vars, render_vars, newers>>

\* lhs * rhs for lhs = Matrix::<W, H>::new(..) and rhs = Matrix::<H, L>::new(..)
\* filled row by row with the components of m_in.a and of m_in.b
MatrixMul(W, H, L) ==
    /\ m_out = NotCalled
    /\ LET comp(t) == <<t.x, t.y, t.z, t.w>>
           fill(t, width, height) ==
               [r \in 1..height |-> [c \in 1..width |-> comp(t)[(r - 1) * width + c]]]
           lhs == fill(m_in.a, W, H)
           rhs == fill(m_in.b, H, L)
       IN  m_out' = Called("mul", [lhs |-> lhs, rhs |-> rhs,
                                   out |-> Matrix_mul_call(lhs, rhs)])
    /\ UNCHANGED <<m_in, hit_vars, world_vars, shade_vars, render_vars, newers>>

NextTuple ==
    \/ \E W \in 1..2, H \in 1..2, L \in 1..2 : MatrixMul(W, H, L)
    \/ MatrixEq
    \/ PointTryFrom
    \/ VectorTryFrom
    \/ PointNew
    \/ VectorNew
    \/ PointSub
    \/ \E fn \in {"add", "sub"} : VectorTupleOp(fn)
    \/ VectorNeg

SpecTuple == InitTuple /\ [][NextTuple]_vars

\* ======================================== specification: Intersections

\* the longest Intersections value
MaxLen == 3

\* the largest t of an intersection, in steps of the grid
MaxT == 2

\* the spheres the intersections of this specification refer to, by id
HitObjects == {0, 1}

HitInputs == { Intersection_new(t, o) : t \in (-1)..MaxT, o \in HitObjects }

RECURSIVE SeqsUpTo(_, _)
\* the sequences over S of length at most n
SeqsUpTo(S, n) ==
    IF n = 0 THEN { << >> }
    ELSE LET shorter == SeqsUpTo(S, n - 1)
         IN  shorter \cup { Append(q, e) : q \in shorter, e \in S }

\* Intersections::new(), or Intersections::from(vec) of any vector
InitHit ==
    /\ xs \in { Intersections_from(vec) : vec \in SeqsUpTo(HitInputs, MaxLen) }
    /\ hit_out = NotCalled
    /\ MatrixIdle /\ WorldIdle /\ ShadeIdle /\ RenderIdle

\* what the operations on xs leave alone
HitFrame == UNCHANGED <<matrix_vars, world_vars, shade_vars, render_vars, newers>>

\* xs.push(i)
Push(i) ==
    /\ Len(xs) < MaxLen
    /\ xs' = Intersections_push(xs, i)
    /\ hit_out' = NotCalled
    /\ HitFrame

\* xs.concat(other)
Concat(other) ==
    /\ Len(xs) + Len(other) <= MaxLen
    /\ xs' = Intersections_concat(xs, other)
    /\ hit_out' = NotCalled
    /\ HitFrame

\* xs.hit()
Hit ==
    /\ hit_out = NotCalled
    /\ hit_out' = Called("hit", hit(xs))
    /\ UNCHANGED xs
    /\ HitFrame

NextHit ==
    \/ \E i \in HitInputs : Push(i)
    \/ \E other \in SeqsUpTo(HitInputs, 2) : Concat(other)
    \/ Hit

SpecHit == InitHit /\ [][NextHit]_vars

\* ================================================ specification: World

\* the most objects and the most lights of a World
MaxObjects == 2

MaxLights == 2

\* 0.1 * k
Tenths(k) == fdiv(Num(k), Num(10))

\* The spheres of the scenes, as their builder chains: the outer sphere of the
\* default world, its inner sphere, and a unit sphere five units toward -z.
SphereKinds == {"outer", "inner", "front"}

KindMaterial(k) ==
    IF k = "outer"
    THEN Material_new(Color_new(Tenths(8), Unit, Tenths(6)),
                      Tenths(1), Tenths(7), Tenths(2), Num(200))
    ELSE Material_default

KindTransform(k) ==
    IF k = "inner" THEN scaling(Half, Half, Half)
    ELSE IF k = "front" THEN translation(0, 0, Num(-5))
    ELSE Matrix_identity(4)

\* Sphere::new().set_transform(t).set_material(m)
BuildSphere(count, k) ==
    LET built == Sphere_set_transform(Sphere_new(count), KindTransform(k))
    IN  Sphere_set_material(built.val, KindMaterial(k))

\* the light of the default world, and a dimmer one on the -z axis
SceneLights ==
    { PointLight_new(Point_new(Num(-10), Num(10), Num(-10)), Color_new(Unit, Unit, Unit)),
      PointLight_new(Point_new(0, 0, Num(-10)), Color_new(Unit, Half, Half)) }

\* rays along z from in front of, inside and behind the spheres at the origin,
\* one off the axis, and one that misses everything
ShadeRays ==
    { Ray_new(Point_new(0, 0, Num(-3)), Vector_new(0, 0, Unit)),
      Ray_new(Point_new(0, Half, Num(-3)), Vector_new(0, 0, Unit)),
      Ray_new(Point_new(0, 0, Num(-3)), Vector_new(0, Unit, 0)),
      Ray_new(Point_new(0, 0, Half + Half \div 2), Vector_new(0, 0, -Unit)),
      Ray_new(Point_new(0, 0, Num(3)), Vector_new(0, 0, Unit)) }

InitShade ==
    /\ COUNT = 0
    /\ world = World_new
    /\ sh_ray \in ShadeRays
    /\ sh_out = NotCalled
    /\ MatrixIdle /\ HitIdle /\ RenderIdle

ShadeFrame == UNCHANGED <<matrix_vars, hit_vars, render_vars, newers>>

\* world.objects.push(Sphere::new().set_transform(..).set_material(..))
AddObject(k) ==
    /\ Len(world.objects) < MaxObjects
    /\ world' = [world EXCEPT !.objects = Append(@, BuildSphere(COUNT, k))]
    /\ COUNT' = COUNT + 1
    /\ sh_out' = NotCalled
    /\ UNCHANGED sh_ray
    /\ ShadeFrame

\* world.lights.push(light)
AddLight(l) ==
    /\ Len(world.lights) < MaxLights
    /\ world' = [world EXCEPT !.lights = Append(@, l)]
    /\ sh_out' = NotCalled
    /\ UNCHANGED <<COUNT, sh_ray>>
    /\ ShadeFrame

\* world.color_at(ray)
ColorAt ==
    /\ sh_out = NotCalled
    /\ sh_out' = Called("color_at", color_at(world, sh_ray))
    /\ UNCHANGED <<COUNT, world, sh_ray>>
    /\ ShadeFrame

\* world.shade_hit(i.prepare_computations(ray)), i an intersection of the ray
ShadeHit(i) ==
    /\ sh_out = NotCalled
    /\ LET comps == prepare_computations(i, sh_ray)
       IN  sh_out' = Called("shade_hit", [comps |-> comps, color |-> shade_hit(world, comps)])
    /\ UNCHANGED <<COUNT, world, sh_ray>>
    /\ ShadeFrame

\* lighting(material, light, point, eyev, normal, in_shadow) at an intersection
\* of the ray, for a light of the scenes
Lighting(i, light, in_shadow) ==
    /\ sh_out = NotCalled
    /\ LET comps == prepare_computations(i, sh_ray)
       IN  sh_out' = Called("lighting",
               [material |-> comps.object.material, light |-> light,
                point |-> comps.point, eyev |-> comps.eyev, normalv |-> comps.normal,
                in_shadow |-> in_shadow,
                color |-> lighting(comps.object.material, light, comps.point,
                                   comps.eyev, comps.normal, in_shadow)])
    /\ UNCHANGED <<COUNT, world, sh_ray>>
    /\ ShadeFrame

\* world.intersect(ray)
WorldIntersect ==
    /\ sh_out = NotCalled
    /\ sh_out' = Called("intersect", World_intersect(world, sh_ray))
    /\ UNCHANGED <<COUNT, world, sh_ray>>
    /\ ShadeFrame

\* world.objects[k].intersect(ray)
SphereIntersect(k) ==
    /\ sh_out = NotCalled
    /\ sh_out' = Called("Sphere::intersect",
           [object |-> world.objects[k], xs |-> Sphere_intersect(world.objects[k], sh_ray)])
    /\ UNCHANGED <<COUNT, world, sh_ray>>
    /\ ShadeFrame

NextShade ==
    \/ WorldIntersect
    \/ \E k \in 1..Len(world.objects) : SphereIntersect(k)
    \/ \E k \in SphereKinds : AddObject(k)
    \/ \E l \in SceneLights : AddLight(l)
    \/ ColorAt
    \/ \E i \in Range(World_intersect(world, sh_ray)) : ShadeHit(i)
    \/ \E i \in Range(World_intersect(world, sh_ray)), l \in SceneLights, s \in BOOLEAN :
           Lighting(i, l, s)

SpecShade == InitShade /\ [][NextShade]_vars

\* ======================================= specification: scene and render
\* A scene is set up (spheres and lights pushed onto the World, the Camera's
\* transform set), then Camera::render runs: the parallel map produces one
\* (x, y, color) per pixel in any order, collect() gathers them, and the
\* sequential for_each writes them to the canvas.

\* the number of pixels of the canvas
MaxPixels == 4

\* (field_of_view / 2).tan() of the cameras: an eighth
HalfView == Unit \div 8

CameraSizes ==
    { hv \in (1..MaxPixels) \X (1..MaxPixels) : hv[1] * hv[2] = MaxPixels }

\* the spheres of a scene, in the order they are pushed
SceneKind(n) == IF n = 1 THEN "outer" ELSE IF n = 2 THEN "inner" ELSE "front"

\* the lights of a scene, in the order they are pushed
SceneLight(n) ==
    IF n % 2 = 1
    THEN PointLight_new(Point_new(Num(-10), Num(10), Num(-10)), Color_new(Unit, Unit, Unit))
    ELSE PointLight_new(Point_new(0, 0, Num(-10)), Color_new(Unit, Half, Half))

\* a transform with determinant 0
Flat == scaling(0, Unit, Unit)

\* the camera transform of the scenes: from (0, 1/2, -5) toward the origin
SceneView ==
    view_transform(Point_new(0, Half, Num(-5)), Point_new(0, 0, 0), Vector_new(0, Unit, 0))

Init ==
    /\ camera \in { Camera_new(hv[1], hv[2], HalfView) : hv \in CameraSizes }
    /\ phase = "setup" /\ call = NotCalled
    /\ finished = << >> /\ items = << >> /\ image = None
    /\ newers = << >>
    /\ WorldIdle /\ MatrixIdle /\ HitIdle /\ ShadeIdle

Frame == UNCHANGED <<matrix_vars, hit_vars, shade_vars, newers>>

\* world.objects.push(Sphere::new().set_transform(transform).set_material(..))
PushSphere(transform) ==
    /\ phase = "setup"
    /\ Len(world.objects) < MaxObjects
    /\ LET out == Sphere_set_transform(Sphere_new(COUNT), transform)
           kind == SceneKind(Len(world.objects) + 1)
       IN  /\ call' = Called("Sphere::set_transform", [arg |-> transform, out |-> out])
           /\ IF out.panicked
              THEN phase' = "panic" /\ UNCHANGED world
              ELSE /\ world' = [world EXCEPT !.objects =
                                  Append(@, Sphere_set_material(out.val, KindMaterial(kind)))]
                   /\ UNCHANGED phase
    /\ COUNT' = COUNT + 1
    /\ UNCHANGED <<camera, finished, items, image>>
    /\ Frame

\* world.lights.push(light)
PushLight ==
    /\ phase = "setup"
    /\ Len(world.lights) < MaxLights
    /\ world' = [world EXCEPT !.lights = Append(@, SceneLight(Len(world.lights) + 1))]
    /\ UNCHANGED <<COUNT, camera, phase, call, finished, items, image>>
    /\ Frame

\* camera.set_transform(transform)
CameraSetTransform(transform) ==
    /\ phase = "setup"
    /\ LET out == Camera_set_transform(camera, transform)
       IN  /\ call' = Called("Camera::set_transform", [arg |-> transform, out |-> out])
           /\ IF out.panicked
              THEN phase' = "panic" /\ UNCHANGED camera
              ELSE camera' = out.val /\ UNCHANGED phase
    /\ UNCHANGED <<world_vars, finished, items, image>>
    /\ Frame

\* camera.render(&world) begins: the canvas is made
RenderBegin ==
    /\ phase = "setup"
    /\ phase' = "render"
    /\ image' = Canvas_new(camera.hsize, camera.vsize)
    /\ UNCHANGED <<world_vars, camera, call, finished, items>>
    /\ Frame

\* the two map closures of render, for one pixel
render_pixel(self, w, x, y) ==
    [x |-> x, y |-> y, color |-> color_at(w, ray_for_pixel(self, x, y))]

\* a worker of the parallel map finishes the pixel (x, y)
WorkerFinish(x, y) ==
    /\ phase = "render"
    /\ \A f \in Range(finished) : <<f.x, f.y>> /= <<x, y>>
    /\ finished' = Append(finished, render_pixel(camera, world, x, y))
    /\ UNCHANGED <<world_vars, camera, phase, call, items, image>>
    /\ Frame

\* a collect that keeps the order the workers finished in
par_collect_unordered(results, hsize) == results

\* a collect that numbers the results as they arrive
par_collect_renumbered(results, hsize) ==
    [i \in 1..Len(results) |->
        [x |-> (i - 1) % hsize, y |-> (i - 1) \div hsize, color |-> results[i].color]]

\* a collect that hands out the first result for every pixel
par_collect_repeated(results, hsize) == [i \in 1..Len(results) |-> results[1]]

\* collect::<Vec<_>>() of the indexed parallel iterator: each result at the
\* place of its pixel in the iteration (0..vsize) x (0..hsize)
par_collect(results, hsize) ==
    [i \in 1..Len(results) |->
        CHOOSE f \in Range(results) : f.y * hsize + f.x = i - 1]

RECURSIVE for_each_write_pixel(_, _)
\* .iter().for_each(|(x, y, color)| image.write_pixel(x, y, color))
for_each_write_pixel(canvas, rest) ==
    IF rest = << >> THEN canvas
    ELSE for_each_write_pixel(write_pixel(canvas, rest[1].x, rest[1].y, rest[1].color),
                              Tail(rest))

\* every pixel is computed: the results are collected and written, and render
\* returns the image
Collect ==
    /\ phase = "render"
    /\ Len(finished) = camera.hsize * camera.vsize
    /\ items' = par_collect(finished, camera.hsize)
    /\ image' = for_each_write_pixel(image, items')
    /\ phase' = "done"
    /\ UNCHANGED <<world_vars, camera, call, finished>>
    /\ Frame

Next ==
    \/ \E t \in {KindTransform(SceneKind(Len(world.objects) + 1)), Flat} : PushSphere(t)
    \/ PushLight
    \/ \E t \in {SceneView, Flat} : CameraSetTransform(t)
    \/ RenderBegin
    \/ \E x \in 0..(camera.hsize - 1), y \in 0..(camera.vsize - 1) : WorkerFinish(x, y)
    \/ Collect

Spec == Init /\ [][Next]_vars

\* The pool runs the job of every pixel to its end, and the thread that called
\* render goes on once collect has every result.  The first condition is weak
\* fairness of the workers' steps, written out: such a step is possible exactly
\* while the render lacks a result.
SpecLive ==
    /\ Spec
    /\ \/ []<>(~(phase = "render" /\ Len(finished) < camera.hsize * camera.vsize))
       \/ []<><<\E x \in 0..(camera.hsize - 1), y \in 0..(camera.vsize - 1) :
                    WorkerFinish(x, y)>>_vars
    /\ WF_vars(Collect)

\* ===================================== specification: Sphere::new calls
\* Threads call Sphere::new.  A call is two steps, the fetch_add on the static
\* COUNT and the return of the sphere built with the id it got; the steps of
\* different threads interleave in every way.

\* the threads that call Sphere::new
Threads == {"main", "worker"}

\* the calls each thread makes
MaxNews == 3

InitNew ==
    /\ newers = [t \in Threads |-> [pc |-> "idle", id |-> 0, made |-> << >>]]
    /\ COUNT = 0 /\ world = World_new
    /\ camera = None /\ phase = "setup" /\ call = NotCalled
    /\ finished = << >> /\ items = << >> /\ image = None
    /\ MatrixIdle /\ HitIdle /\ ShadeIdle

\* thread t, in Sphere::new: COUNT.fetch_add(1, Ordering::Relaxed)
NewFetch(t) ==
    /\ newers[t].pc = "idle"
    /\ Len(newers[t].made) < MaxNews
    /\ LET got == fetch_add(COUNT, 1)
       IN  /\ COUNT' = got.new
           /\ newers' = [newers EXCEPT ![t].pc = "fetched", ![t].id = got.old]
    /\ UNCHANGED <<matrix_vars, hit_vars, shade_vars, render_vars, world>>

\* thread t, in Sphere::new: the sphere is built and returned
NewReturn(t) ==
    /\ newers[t].pc = "fetched"
    /\ newers' = [newers EXCEPT ![t].pc = "idle",
                                ![t].made = Append(@, Sphere_new(newers[t].id))]
    /\ UNCHANGED <<matrix_vars, hit_vars, shade_vars, render_vars, world_vars>>

NextNew == \E t \in Threads : NewFetch(t) \/ NewReturn(t)

SpecNew == InitNew /\ [][NextNew]_vars

\* ============================================= specification: Build
\* The builder calls on one sphere, call holding the last call and in its out
\* the sphere it returned, and the set_transform calls on one camera.

InitBuild ==
    /\ \E count \in 0..2 :
          LET got == fetch_add(count, 1)
          IN  /\ COUNT = got.new
              /\ call = Called("Sphere::new", [out |-> Returned(Sphere_new(got.old))])
    /\ world = World_new
    /\ camera \in { Camera_new(hv[1], hv[2], HalfView) : hv \in CameraSizes }
    /\ phase = "setup" /\ finished = << >> /\ items = << >> /\ image = None
    /\ newers = << >>
    /\ MatrixIdle /\ HitIdle /\ ShadeIdle

\* sphere.set_transform(transform) on the sphere the last call returned
SphereSetTransform(transform) ==
    /\ phase = "setup"
    /\ call.op /= "Camera::set_transform" /\ ~call.res.out.panicked
    /\ LET self == call.res.out.val
       IN  call' = Called("Sphere::set_transform",
               [self |-> self, arg |-> transform,
                out |-> Sphere_set_transform(self, transform)])
    /\ UNCHANGED <<matrix_vars, hit_vars, world_vars, shade_vars,
                   camera, phase, finished, items, image, newers>>

\* sphere.set_material(material) on the sphere the last call returned
SphereSetMaterial(material) ==
    /\ phase = "setup"
    /\ call.op /= "Camera::set_transform" /\ ~call.res.out.panicked
    /\ LET self == call.res.out.val
       IN  call' = Called("Sphere::set_material",
               [self |-> self, arg |-> material,
                out |-> Returned(Sphere_set_material(self, material))])
    /\ UNCHANGED <<matrix_vars, hit_vars, world_vars, shade_vars,
                   camera, phase, finished, items, image, newers>>

NextBuild ==
    \/ \E t \in { translation(Unit, Num(2), Num(3)), scaling(Num(2), Num(2), Half), Flat } :
          SphereSetTransform(t)
    \/ \E m \in { KindMaterial("outer"), Material_default } : SphereSetMaterial(m)
    \/ \E t \in { SceneView, translation(0, 0, Unit), Flat } : CameraSetTransform(t)

SpecBuild == InitBuild /\ [][NextBuild]_vars

\* ============================================== specification: Canvas
\* image is the canvas; items remembers, for every coordinate of the canvas,
\* the color of the last write_pixel call made with that coordinate.

InitCanvas ==
    /\ \E size \in { <<2, 2>>, <<3, 1>> } :
          /\ image = Canvas_new(size[1], size[2])
          /\ items = [c \in (0..(size[1] - 1)) \X (0..(size[2] - 1)) |-> BLACK]
    /\ call = NotCalled
    /\ camera = None /\ phase = "setup" /\ finished = << >> /\ newers = << >>
    /\ MatrixIdle /\ HitIdle /\ WorldIdle /\ ShadeIdle

\* image = image.write_pixel(x, y, color)
CanvasWrite(x, y, color) ==
    /\ image' = write_pixel(image, x, y, color)
    /\ items' = IF <<x, y>> \in DOMAIN items
                THEN [items EXCEPT ![<<x, y>>] = color] ELSE items
    /\ call' = Called("write_pixel", [x |-> x, y |-> y, color |-> color, before |-> image])
    /\ UNCHANGED <<matrix_vars, hit_vars, world_vars, shade_vars,
                   camera, phase, finished, newers>>

\* image.read_pixel(x, y): indexing the Vec with (y * width + x) as usize panics
\* when the index is not below its length (a negative isize is a huge usize)
CanvasRead(x, y) ==
    /\ LET index == y * image.width + x
       IN  call' = Called("read_pixel",
               [x |-> x, y |-> y,
                out |-> IF index >= 0 /\ index < Len(image.pixels)
                        THEN Returned(read_pixel(image, x, y))
                        ELSE Panicked("index out of bounds")])
    /\ UNCHANGED <<matrix_vars, hit_vars, world_vars, shade_vars,
                   camera, phase, finished, items, image, newers>>

NextCanvas ==
    \/ \E x \in (-1)..image.width, y \in (-1)..image.height,
          color \in { Color_new(Unit, 0, 0), Color_new(0, Half, 0) } :
            CanvasWrite(x, y, color)
    \/ \E x \in (-1)..image.width, y \in (-1)..image.height : CanvasRead(x, y)

SpecCanvas == InitCanvas /\ [][NextCanvas]_vars

\* ================================================= specification: Ppm
\* m_in is the text given to line_wrap, with the lengths of its tokens; image
\* is the canvas given to to_ppm.

MaxTokens == 20

\* n tokens of "x", of lengths a, b, a, b, ..
TokenLengths(a, b, n) == [k \in 1..n |-> IF k % 2 = 1 THEN a ELSE b]

\* the tokens, one space between two of them
TokenText(lengths) ==
    LET RECURSIVE text(_)
        text(k) == IF k = 0 THEN << >>
                   ELSE text(k - 1) \o (IF k = 1 THEN << >> ELSE <<" ">>)
                            \o [j \in 1..lengths[k] |-> "x"]
    IN  text(Len(lengths))

\* a canvas whose pixel i holds the color (i * step + first) of three
PatternCanvas(width, height, step, first) ==
    LET palette == << Color_new(0, 0, 0), Color_new(Unit, Half, -Half),
                      Color_new(Unit + Half, Unit, Unit) >>
    IN  [Canvas_new(width, height) EXCEPT
            !.pixels = [i \in 1..(width * height) |-> palette[((i * step + first) % 3) + 1]]]

InitPpm ==
    /\ \/ /\ image = None
          /\ \E a \in {1, 2, 3, 11, 35, 69, 70}, b \in {1, 2, 3, 11, 35, 69, 70},
                n \in 1..MaxTokens :
                m_in = [tokens |-> TokenLengths(a, b, n),
                        s |-> TokenText(TokenLengths(a, b, n))]
       \/ /\ m_in = << >>
          /\ \E size \in { <<0, 0>>, <<0, 2>>, <<2, 0>>, <<1, 1>>, <<3, 2>>, <<7, 2>>, <<10, 2>> },
                step \in 0..2, first \in 0..2 :
                image = PatternCanvas(size[1], size[2], step, first)
    /\ m_out = NotCalled /\ call = NotCalled
    /\ camera = None /\ phase = "setup" /\ finished = << >> /\ items = << >>
    /\ newers = << >>
    /\ HitIdle /\ WorldIdle /\ ShadeIdle

\* line_wrap(m_in.s)
LineWrap ==
    /\ image = None
    /\ m_out = NotCalled
    /\ m_out' = Called("line_wrap", line_wrap(m_in.s))
    /\ UNCHANGED <<m_in, hit_vars, world_vars, shade_vars, render_vars, newers>>

\* image.to_ppm()
ToPpm ==
    /\ image /= None
    /\ call = NotCalled
    /\ call' = Called("to_ppm", to_ppm(image))
    /\ UNCHANGED <<matrix_vars, hit_vars, world_vars, shade_vars,
                   camera, phase, finished, items, image, newers>>

NextPpm == LineWrap \/ ToPpm

SpecPpm == InitPpm /\ [][NextPpm]_vars

\* ================================================================= claims

\* C1: for every Intersections value, sorted or not, hit() returns an element
\* with t >= 0 whose t is the least of the elements with t >= 0 (t = 0 counts),
\* and returns None exactly when no element has t >= 0.
C1_HitIsLeastNonNegative ==
    hit_out.called =>
        LET nonneg == { i \in Range(xs) : i.t >= 0 }
        IN  /\ hit_out.res.some <=> nonneg /= {}
            /\ hit_out.res.some =>
                   /\ hit_out.res.val \in nonneg
                   /\ \A i \in nonneg : hit_out.res.val.t <= i.t

\* an unsorted collection with a negative element whose hit is at t = 0
C1_Witness ==
    /\ hit_out.called
    /\ Len(xs) = 3
    /\ xs[1].t > 0 /\ xs[2].t < 0 /\ xs[3].t = 0
    /\ hit_out.res = Some(xs[3])

Perms3 == { p \in [1..3 -> 1..3] : \A i, j \in 1..3 : p[i] = p[j] => i = j }

Perms4 == { p \in [1..4 -> 1..4] : \A i, j \in 1..4 : p[i] = p[j] => i = j }

\* the sign of a permutation, by its inversions
PermSign(p) ==
    LET D == Len(p)
        inv == Cardinality({ <<i, j>> \in (1..D) \X (1..D) : i < j /\ p[i] > p[j] })
    IN  IF inv % 2 = 0 THEN 1 ELSE -1

RECURSIVE SumOver(_, _)
\* the sum of f over the set S
SumOver(f, S) ==
    IF S = {} THEN 0
    ELSE LET e == CHOOSE e \in S : TRUE IN f[e] + SumOver(f, S \ {e})

\* the entries of m in halves, as whole numbers (the inputs are whole halves)
InHalves(m) == [y \in 1..Len(m) |-> [x \in 1..Len(m) |-> (2 * m[y][x]) \div Unit]]

\* the determinant of a matrix of whole numbers by the sum over permutations
LeibnizDet(m) ==
    LET P == IF Len(m) = 3 THEN Perms3 ELSE Perms4
        term == [p \in P |->
                    PermSign(p) * (IF Len(m) = 3
                                   THEN m[1][p[1]] * m[2][p[2]] * m[3][p[3]]
                                   ELSE m[1][p[1]] * m[2][p[2]] * m[3][p[3]] * m[4][p[4]])]
    IN  SumOver(term, P)

\* C3: inverse() of a 3x3 or 4x4 matrix returns the error "matrix not
\* invertible" exactly when the matrix is singular (its determinant, here the
\* sum over permutations, is 0) and Ok otherwise, and invertible() says the same.
C3_InverseErrIffSingular ==
    (m_out.called /\ m_out.op = "inverse") =>
        /\ m_out.res.ok <=> LeibnizDet(InHalves(m_in)) /= 0
        /\ m_out.res.ok <=> invertible(m_in)
        /\ ~m_out.res.ok => m_out.res = Err("matrix not invertible")
        /\ m_out.res.ok => Len(m_out.res.val) = Len(m_in)

\* a 4x4 matrix with no zero row and no repeated row that inverse() refuses
C3_Witness ==
    /\ m_out.called /\ m_out.op = "inverse"
    /\ Len(m_in) = 4
    /\ ~m_out.res.ok
    /\ \A i \in 1..4 : m_in[i] /= <<0, 0, 0, 0>>
    /\ \A i, j \in 1..4 : m_in[i] = m_in[j] => i = j

\* every intersection of the ray with an object of the world, as a set
AllIntersections(w, ray) ==
    UNION { Range(Sphere_intersect(w.objects[k], ray)) : k \in 1..Len(w.objects) }

\* C8: color_at returns black when the ray has no intersection with t >= 0 in
\* the world, and otherwise the shade_hit of the computations prepared for an
\* intersection of least t among those with t >= 0.
C8_ColorAtShadesNearestHit ==
    (sh_out.called /\ sh_out.op = "color_at") =>
        LET nonneg == { i \in AllIntersections(world, sh_ray) : i.t >= 0 }
        IN  IF nonneg = {}
            THEN sh_out.res = BLACK
            ELSE \E h \in nonneg :
                    /\ \A i \in nonneg : h.t <= i.t
                    /\ sh_out.res = shade_hit(world, prepare_computations(h, sh_ray))

\* color_at shaded a hit that has an intersection behind the ray's origin
C8_Witness ==
    /\ sh_out.called /\ sh_out.op = "color_at"
    /\ sh_out.res /= BLACK
    /\ \E i \in AllIntersections(world, sh_ray) : i.t < 0
    /\ \E i \in AllIntersections(world, sh_ray) : i.t >= 0

\* the sum of the colors c[k], k in S
ColorSum(c, S) ==
    Color_new(SumOver([k \in S |-> c[k].red], S),
              SumOver([k \in S |-> c[k].green], S),
              SumOver([k \in S |-> c[k].blue], S))

\* the shadow test: a hit on the ray from point toward the light, nearer than
\* the light
ShadowedFor(w, point, light) ==
    LET v == Point_sub(light.position, point)
        distance == magnitude(v)
        h == hit(World_intersect(w, Ray_new(point, Vector_normalize(v))))
    IN  h.some /\ h.val.t < distance

\* C9: for each light, shade_hit passes lighting the shadow state of the hit's
\* over_point for that light, so that a blocked light adds its ambient term only.
C9_ShadeHitPassesShadowState ==
    (sh_out.called /\ sh_out.op = "shade_hit") =>
        LET comp == sh_out.res.comps
            L == 1..Len(world.lights)
            part == [k \in L |->
                        lighting(comp.object.material, world.lights[k], comp.point,
                                 comp.eyev, comp.normal,
                                 ShadowedFor(world, comp.over_point, world.lights[k]))]
        IN  sh_out.res.color = ColorSum(part, L)

\* C10: shade_hit returns the sum over the lights of the world of lighting for
\* that light with the hit object's material and the hit's point, eye vector
\* and normal; each light adds what it adds alone, and no lights give black.
C10_ShadeHitSumsTheLights ==
    (sh_out.called /\ sh_out.op = "shade_hit") =>
        LET comp == sh_out.res.comps
            L == 1..Len(world.lights)
            alone == [k \in L |->
                         shade_hit([world EXCEPT !.lights = <<world.lights[k]>>], comp)]
        IN  /\ sh_out.res.color = ColorSum(alone, L)
            /\ L = {} => sh_out.res.color = BLACK
            /\ \A k \in L : \E in_shadow \in BOOLEAN :
                   alone[k] = lighting(comp.object.material, world.lights[k], comp.point,
                                       comp.eyev, comp.normal, in_shadow)

\* shade_hit summed two different lights that both reach the surface
C10_Witness ==
    /\ sh_out.called /\ sh_out.op = "shade_hit"
    /\ Len(world.lights) = 2
    /\ world.lights[1] /= world.lights[2]
    /\ \A k \in 1..2 :
           LET one == shade_hit([world EXCEPT !.lights = <<world.lights[k]>>],
                                sh_out.res.comps)
           IN  one.red > 0 /\ one /= sh_out.res.color

\* C2: a set_transform call of Sphere or Camera with a matrix of determinant 0
\* returns a typed failure to its caller: it does not panic, and it does not
\* silently keep or fall back to a usable transform.
C2_SingularTransformIsTypedFailure ==
    (call.called /\ ~invertible(call.res.arg)) =>
        /\ ~call.res.out.panicked
        /\ phase /= "panic"
        /\ "ok" \in DOMAIN call.res.out.val
        /\ ~call.res.out.val.ok

\* the scene with every transform field overwritten by a matrix that has no
\* inverse, the cached inverses left as they are
StaleWorld(w) ==
    [w EXCEPT !.objects = [k \in DOMAIN @ |-> [@[k] EXCEPT !.transform = Flat]]]

StaleCamera(self) == [self EXCEPT !.transform = Flat]

\* C4: a transform without inverse fails inside set_transform and before any
\* rendering; each set_transform inverts its argument once and caches it, and
\* the per-pixel steps (ray_for_pixel, intersect, normal_at) use the cached
\* inverse only, so that none of them can fail on, or depend on, an inversion.
C4_InversionOnlyAtConfiguration ==
    /\ phase = "panic" =>
           /\ call.called /\ call.res.out.panicked /\ ~invertible(call.res.arg)
           /\ finished = << >> /\ items = << >> /\ image = None
    /\ (call.called /\ ~call.res.out.panicked) =>
           /\ call.res.out.val.transform = call.res.arg
           /\ Ok(call.res.out.val.inv_transform) = inverse(call.res.arg)
    /\ phase \in {"render", "done"} =>
           /\ \A o \in Range(world.objects) : invertible(o.transform)
           /\ invertible(camera.transform)
           /\ finished /= << >> =>
                  LET f == finished[Len(finished)]
                  IN  render_pixel(StaleCamera(camera), StaleWorld(world), f.x, f.y) = f

\* a scene with a scaled sphere and a moved camera was rendered, and a sphere
\* is seen in it
C4_Witness ==
    /\ phase = "done"
    /\ Len(world.objects) = 2
    /\ world.objects[2].transform /= Matrix_identity(4)
    /\ camera.transform = SceneView
    /\ \E f \in Range(finished) : f.color /= BLACK

RowMajorSchedule(self, w) ==
    [i \in 1..(self.hsize * self.vsize) |->
        render_pixel(self, w, (i - 1) % self.hsize, (i - 1) \div self.hsize)]

\* the image render returns when the workers finish in the given order
ImageOf(self, results) ==
    for_each_write_pixel(Canvas_new(self.hsize, self.vsize),
                         par_collect(results, self.hsize))

\* C6: the image render returns does not depend on the order the workers
\* finished in: it is the image of the run that finishes in row-major order.
C6_ImageIndependentOfSchedule ==
    phase = "done" => image = ImageOf(camera, RowMajorSchedule(camera, world))

\* a render whose workers did not finish in row-major order, with pixels of
\* different colors
C6_Witness ==
    /\ phase = "done"
    /\ finished /= RowMajorSchedule(camera, world)
    /\ \E f, g \in Range(finished) : f.color /= g.color

\* C7: the collected list holds the workers' results in row-major order, y
\* outer and x inner, whatever order they finished in.
C7_CollectedInRowMajorOrder ==
    phase = "done" =>
        /\ Len(items) = camera.hsize * camera.vsize
        /\ Range(items) = Range(finished)
        /\ \A i \in 1..Len(items) :
               /\ items[i].x = (i - 1) % camera.hsize
               /\ items[i].y = (i - 1) \div camera.hsize

\* the workers of a 2 x 2 render finished in the reverse of row-major order
C7_Witness ==
    /\ phase = "done"
    /\ camera.hsize = 2 /\ camera.vsize = 2
    /\ \A i \in 1..4 : finished[i] = items[5 - i]

\* the ambient term: material.color x light.intensity x material.ambient
AmbientTerm(material, light) ==
    [red |-> fmul(fmul(material.color.red, light.intensity.red), material.ambient),
     green |-> fmul(fmul(material.color.green, light.intensity.green), material.ambient),
     blue |-> fmul(fmul(material.color.blue, light.intensity.blue), material.ambient)]

\* the cosine of the angle between the direction to the light and the normal
LightDotNormal(light, point, normalv) ==
    dot(normalize(Tuple_sub(light.position, point)), normalv)

Occurrences(q, e) == Cardinality({ i \in 1..Len(q) : q[i] = e })

\* C12: World::intersect returns the intersections of every object of the
\* world with the ray, each as many times as its object reports it and none
\* besides, in non-decreasing order of t.
C12_WorldIntersectIsSortedUnion ==
    (sh_out.called /\ sh_out.op = "intersect") =>
        LET res == sh_out.res
            each == [k \in 1..Len(world.objects) |-> Sphere_intersect(world.objects[k], sh_ray)]
        IN  /\ Len(res) = SumOver([k \in DOMAIN each |-> Len(each[k])], DOMAIN each)
            /\ Range(res) = AllIntersections(world, sh_ray)
            /\ \A e \in Range(res) :
                   Occurrences(res, e)
                       = SumOver([k \in DOMAIN each |-> Occurrences(each[k], e)], DOMAIN each)
            /\ \A i \in 1..(Len(res) - 1) : res[i].t <= res[i + 1].t

\* the ray crosses two spheres, the second one between the two intersections
\* of the first
C12_Witness ==
    /\ sh_out.called /\ sh_out.op = "intersect"
    /\ Len(sh_out.res) = 4
    /\ sh_out.res[1].object = world.objects[1]
    /\ sh_out.res[2].object = world.objects[2]
    /\ sh_out.res[3].object = world.objects[2]
    /\ sh_out.res[4].object = world.objects[1]
    /\ sh_out.res[1].t < sh_out.res[2].t

\* C13: Sphere::intersect returns no intersection or exactly two, the first
\* with a t not greater than the second's (equal when the ray is tangent), and
\* each refers to the sphere it was called on.
C13_SphereIntersectTwoOrdered ==
    (sh_out.called /\ sh_out.op = "Sphere::intersect") =>
        LET res == sh_out.res.xs
        IN  \/ res = Intersections_new
            \/ /\ Len(res) = 2
               /\ res[1].t <= res[2].t
               /\ res[1].object = sh_out.res.object
               /\ res[2].object = sh_out.res.object

\* a ray tangent to a sphere: two intersections at the same t
C13_Witness ==
    /\ sh_out.called /\ sh_out.op = "Sphere::intersect"
    /\ Len(sh_out.res.xs) = 2
    /\ sh_out.res.xs[1].t = sh_out.res.xs[2].t
    /\ sh_out.res.xs[1].object = sh_out.res.object

\* C14: every Intersections value reached through new, the conversion from a
\* vector, push and concat holds its elements in non-decreasing order of t.
C14_IntersectionsAlwaysSorted ==
    \A i \in 1..(Len(xs) - 1) : xs[i].t <= xs[i + 1].t

\* the spheres made so far, each with the thread and the call that made it
MadeSpheres ==
    UNION { { <<t, k, newers[t].made[k]>> : k \in 1..Len(newers[t].made) } :
            t \in DOMAIN newers }

\* C15: two spheres made by different Sphere::new calls, however the calls of
\* the threads interleave, have different ids and compare unequal although
\* their transform and material are the same; a sphere equals itself.
C15_SphereIdsAreUnique ==
    \A a, b \in MadeSpheres :
        IF <<a[1], a[2]>> = <<b[1], b[2]>>
        THEN Sphere_eq(a[3], b[3])
        ELSE /\ a[3].id /= b[3].id
             /\ ~Sphere_eq(a[3], b[3])
             /\ Sphere_eq(a[3], [b[3] EXCEPT !.id = a[3].id])

\* the calls of two threads interleaved: each thread has made two spheres, and
\* the ids alternate between the threads
C15_Witness ==
    /\ DOMAIN newers = Threads
    /\ Len(newers["main"].made) >= 2 /\ Len(newers["worker"].made) >= 2
    /\ newers["worker"].made[1].id < newers["main"].made[1].id
    /\ newers["main"].made[1].id < newers["worker"].made[2].id
    /\ newers["worker"].made[2].id < newers["main"].made[2].id

\* C16: prepare_computations sets inside exactly when the surface normal at the
\* hit point has a negative dot product with the eye vector (minus the ray's
\* direction) and then returns the negated normal; the returned normal never
\* points away from the eye, and over_point is the hit point moved by epsilon
\* along the returned normal.
C16_InsideFlipsTheNormal ==
    (sh_out.called /\ sh_out.op = "shade_hit") =>
        LET c == sh_out.res.comps
            surface == normal_at(c.object, c.point)
        IN  /\ c.point = Ray_position(sh_ray, c.t)
            /\ c.eyev = Tuple_neg(sh_ray.direction)
            /\ c.inside <=> dot(surface, c.eyev) < 0
            /\ c.normal = IF c.inside THEN Tuple_neg(surface) ELSE surface
            /\ dot(c.normal, c.eyev) >= 0
            /\ c.over_point.x = c.point.x + fmul(c.normal.x, EPSILON)
            /\ c.over_point.y = c.point.y + fmul(c.normal.y, EPSILON)
            /\ c.over_point.z = c.point.z + fmul(c.normal.z, EPSILON)
            /\ c.over_point.w = Unit

\* computations prepared for a hit on the inside of a sphere, off the axes
C16_Witness ==
    /\ sh_out.called /\ sh_out.op = "shade_hit"
    /\ sh_out.res.comps.inside
    /\ sh_out.res.comps.normal.y /= 0
    /\ sh_out.res.comps.over_point /= sh_out.res.comps.point

\* C17: for an invertible 4x4 matrix M, M * M.inverse() equals the identity,
\* M.inverse().inverse() equals M, and (A * M) * M.inverse() equals A for every
\* 4x4 matrix A, all by the matrices' own equality.
C17_InverseUndoesMultiplication ==
    (m_out.called /\ m_out.op = "mul_inverse") =>
        /\ Matrix_eq(m_out.res.by_inverse, Matrix_identity(4))
        /\ m_out.res.inverse_of_inverse.ok
        /\ Matrix_eq(m_out.res.inverse_of_inverse.val, m_in)
        /\ Matrix_eq(m_out.res.there_and_back, m_out.res.a)

\* a matrix that is not symmetric and not its own inverse, multiplied from the
\* left by a matrix that has no inverse
C17_Witness ==
    /\ m_out.called /\ m_out.op = "mul_inverse"
    /\ m_in /= transpose(m_in)
    /\ m_out.res.inv /= m_in
    /\ m_out.res.inv /= transpose(m_out.res.inv)
    /\ ~invertible(m_out.res.a)

\* C18: Point::try_from succeeds exactly when w is within epsilon of 1 and
\* Vector::try_from exactly when w is within epsilon of 0; a success holds the
\* tuple, a failure is an Err value with its message, never a panic; Point::new
\* makes w = 1 and Vector::new makes w = 0.
C18_ConversionChecksTheTag ==
    m_out.called =>
        /\ m_out.op = "Point::try_from" =>
              /\ m_out.res.ok <=> Abs(m_in.a.w - Unit) < EPSILON
              /\ m_out.res.ok => m_out.res.val = m_in.a
              /\ ~m_out.res.ok =>
                    m_out.res = Err("failed to convert a tuple into a point")
        /\ m_out.op = "Vector::try_from" =>
              /\ m_out.res.ok <=> Abs(m_in.a.w) < EPSILON
              /\ m_out.res.ok => m_out.res.val = m_in.a
              /\ ~m_out.res.ok =>
                    m_out.res = Err("failed to convert a tuple into a vector")
        /\ m_out.op = "Point::new" =>
              m_out.res = Tuple_new(m_in.a.x, m_in.a.y, m_in.a.z, Unit)
        /\ m_out.op = "Vector::new" =>
              m_out.res = Tuple_new(m_in.a.x, m_in.a.y, m_in.a.z, 0)

\* a tuple whose w is epsilon away from 1 is refused as a point
C18_Witness ==
    /\ m_out.called /\ m_out.op = "Point::try_from"
    /\ m_in.a.w = Unit + EPSILON
    /\ ~m_out.res.ok

\* C19: for all Points p and q, p - q is a Vector and (p - q) + q equals p;
\* Vector + Vector and Vector - Vector are Vectors, and so is -Vector.
C19_TagAlgebra ==
    m_out.called =>
        /\ m_out.op = "Point::sub" =>
              /\ ~m_out.res.panicked
              /\ is_vector(m_out.res.val)
              /\ Tuple_eq(Tuple_add(m_out.res.val, m_in.b), m_in.a)
        /\ m_out.op \in {"add", "sub", "neg"} =>
              /\ ~m_out.res.panicked
              /\ is_vector(m_out.res.val)

\* C20: for 4x4 matrices A, B, C and a point p, (C * B * A) * p equals
\* C * (B * (A * p)): the chained matrix applies A first, then B, then C.
C20_ChainAppliesRightToLeft ==
    (m_out.called /\ m_out.op = "chain") =>
        Tuple_eq(m_out.res.chained, m_out.res.in_sequence)

\* a chain whose result depends on the order: applying C first, then B, then A
\* gives another tuple
C20_Witness ==
    /\ m_out.called /\ m_out.op = "chain"
    /\ ~Tuple_eq(m_out.res.chained,
                 Matrix_mul_tuple(m_in, Matrix_mul_tuple(m_out.res.b,
                     Matrix_mul_tuple(m_out.res.c, m_out.res.p))))
    /\ m_in /= Matrix_identity(4)
    /\ m_in /= transpose(m_in)

\* C21: two matrices compare equal exactly when their corresponding entries
\* compare equal as Tuple components, entries that differ by exactly epsilon
\* included.
C21_MatrixEqIsTupleEq ==
    (m_out.called /\ m_out.op = "eq") => m_out.res.matrix = m_out.res.tuple

\* C22: a canvas holds width * height pixels, all black when new; read_pixel
\* at a coordinate of the canvas returns the color last written there (black if
\* none was); a write at a coordinate of the canvas changes that pixel only
\* and keeps both dimensions.
C22_CanvasKeepsWhatWasWritten ==
    /\ Len(image.pixels) = image.width * image.height
    /\ ~call.called => \A i \in 1..Len(image.pixels) : image.pixels[i] = Color_new(0, 0, 0)
    /\ (call.called /\ call.op = "read_pixel" /\ <<call.res.x, call.res.y>> \in DOMAIN items) =>
          call.res.out = Returned(Ok(items[<<call.res.x, call.res.y>>]))
    /\ (call.called /\ call.op = "write_pixel" /\ <<call.res.x, call.res.y>> \in DOMAIN items) =>
          /\ image.width = call.res.before.width
          /\ image.height = call.res.before.height
          /\ \A c \in DOMAIN items :
                read_pixel(image, c[1], c[2]) =
                    IF c = <<call.res.x, call.res.y>>
                    THEN Ok(call.res.color)
                    ELSE read_pixel(call.res.before, c[1], c[2])

\* a pixel that was written is read while another pixel holds another written
\* color
C22_Witness ==
    /\ call.called /\ call.op = "read_pixel"
    /\ <<call.res.x, call.res.y>> \in DOMAIN items
    /\ call.res.out = Returned(Ok(Color_new(Unit, 0, 0)))
    /\ \E c \in DOMAIN items : items[c] = Color_new(0, Half, 0)
    /\ \E c \in DOMAIN items : items[c] = BLACK

\* C29: write_pixel with x < 0, x >= width, y < 0 or y >= height returns the
\* canvas as it was, pixels and dimensions, and reports nothing.
C29_WriteOutsideChangesNothing ==
    (/\ call.called /\ call.op = "write_pixel"
     /\ \/ call.res.x < 0 \/ call.res.x >= call.res.before.width
        \/ call.res.y < 0 \/ call.res.y >= call.res.before.height) =>
        image = call.res.before

\* a write outside a canvas that already holds a written pixel
C29_Witness ==
    /\ call.called /\ call.op = "write_pixel"
    /\ call.res.x = image.width /\ call.res.y = 0
    /\ image.height > 1
    /\ call.res.color = Color_new(Unit, 0, 0)
    /\ image.pixels[image.width + 1] = Color_new(0, Half, 0)

\* C30: read_pixel never returns an error value; it panics exactly when the
\* index y * width + x is outside the buffer, and otherwise returns the pixel
\* stored at that index, which for an x outside the canvas is the pixel of
\* another coordinate.
C30_ReadIsUnchecked ==
    (call.called /\ call.op = "read_pixel") =>
        LET index == call.res.y * image.width + call.res.x
            inside == index >= 0 /\ index < Len(image.pixels)
        IN  /\ call.res.out.panicked <=> ~inside
            /\ inside =>
                  /\ call.res.out.val.ok
                  /\ call.res.out.val.val =
                        items[<<index % image.width, index \div image.width>>]

\* a read with x = width returns what was written at (0, y + 1)
C30_Witness ==
    /\ call.called /\ call.op = "read_pixel"
    /\ call.res.x = image.width /\ call.res.y = 0
    /\ image.height > 1
    /\ ~call.res.out.panicked
    /\ call.res.out.val = Ok(Color_new(Unit, 0, 0))
    /\ items[<<0, 1>>] = Color_new(Unit, 0, 0)
    /\ \A c \in DOMAIN items : c /= <<0, 1>> => items[c] /= Color_new(Unit, 0, 0)

\* the lines of a text: what stands between its newlines
Lines(text) ==
    LET newlines == { i \in 1..Len(text) : text[i] = "\n" }
        starts == {0} \cup newlines
        ends == newlines \cup {Len(text) + 1}
        nth(S, k) == CHOOSE i \in S : Cardinality({ j \in S : j <= i }) = k
    IN  [k \in 1..Cardinality(ends) |->
            SubSeq(text, nth(starts, k) + 1, nth(ends, k) - 1)]

\* the text with every newline replaced by a space
Unwrapped(text) == [i \in 1..Len(text) |-> IF text[i] = "\n" THEN " " ELSE text[i]]

\* the words of a text: what stands between its spaces and newlines
Words(text) == Lines([i \in 1..Len(text) |-> IF text[i] = " " THEN "\n" ELSE text[i]])

\* the numbers to_ppm has to print for a canvas, pixel by pixel in row order
PixelWords(canvas) ==
    LET word(k) ==
            LET pixel == canvas.pixels[((k - 1) \div 3) + 1]
            IN  u32_to_string(to255(IF k % 3 = 1 THEN pixel.red
                                    ELSE IF k % 3 = 2 THEN pixel.green ELSE pixel.blue))
    IN  [k \in 1..(3 * Len(canvas.pixels)) |-> word(k)]

C24_CachedInverseIsInStep ==
    /\ (call.called /\ call.op /= "Camera::set_transform" /\ ~call.res.out.panicked) =>
          /\ Ok(call.res.out.val.inv_transform) = inverse(call.res.out.val.transform)
          /\ call.op = "Sphere::new" =>
                /\ call.res.out.val.transform = Matrix_identity(4)
                /\ call.res.out.val.inv_transform = Matrix_identity(4)
          /\ call.op = "Sphere::set_transform" =>
                call.res.out.val.transform = call.res.arg
    /\ Ok(camera.inv_transform) = inverse(camera.transform)
    /\ call.op /= "Camera::set_transform" =>
          /\ camera.transform = Matrix_identity(4)
          /\ camera.inv_transform = Matrix_identity(4)
    /\ (call.called /\ call.op = "Camera::set_transform") =>
          IF call.res.out.panicked
          THEN ~invertible(call.res.arg) /\ camera.transform /= call.res.arg
          ELSE camera.transform = call.res.arg

\* a sphere whose transform was set, then its material, then its transform
\* again, to another matrix
C24_Witness ==
    /\ call.called /\ call.op = "Sphere::set_transform" /\ ~call.res.out.panicked
    /\ call.res.self.transform /= Matrix_identity(4)
    /\ call.res.self.transform /= call.res.arg
    /\ call.res.self.material /= Material_default
    /\ call.res.out.val.inv_transform /= call.res.self.inv_transform

\* C28: set_material returns the sphere with its material replaced and nothing
\* else, set_transform returns it with the same id and material, and the id is
\* always the one Sphere::new took from COUNT.
C28_BuildersKeepTheRest ==
    (call.called /\ call.op /= "Camera::set_transform" /\ ~call.res.out.panicked) =>
        /\ call.res.out.val.id = COUNT - 1
        /\ call.op = "Sphere::set_material" =>
              /\ call.res.out.val.material = call.res.arg
              /\ call.res.out.val.id = call.res.self.id
              /\ call.res.out.val.transform = call.res.self.transform
              /\ call.res.out.val.inv_transform = call.res.self.inv_transform
        /\ call.op = "Sphere::set_transform" =>
              /\ call.res.out.val.id = call.res.self.id
              /\ call.res.out.val.material = call.res.self.material

\* the material of a moved sphere with a non-zero id is replaced
C28_Witness ==
    /\ call.called /\ call.op = "Sphere::set_material"
    /\ call.res.self.id > 0
    /\ call.res.self.transform /= Matrix_identity(4)
    /\ call.res.arg /= call.res.self.material

\* C25: while the pixels are computed nothing is written to the canvas; the
\* writes are made in one pass, after every one of the hsize * vsize pixels was
\* computed once, and the pass writes every index of the canvas once; render
\* changes neither the world nor the camera, and a render that began ends.
C25_OneWriterPassAfterTheWorkers ==
    /\ [](phase = "render" =>
            /\ image = Canvas_new(camera.hsize, camera.vsize)
            /\ items = << >>
            /\ \A i, j \in 1..Len(finished) :
                   (finished[i].x = finished[j].x /\ finished[i].y = finished[j].y) => i = j)
    /\ [](phase = "done" =>
            /\ Len(finished) = camera.hsize * camera.vsize
            /\ Len(items) = camera.hsize * camera.vsize
            /\ \A index \in 0..(camera.hsize * camera.vsize - 1) :
                   Cardinality({ i \in 1..Len(items) :
                       /\ items[i].x \in 0..(camera.hsize - 1)
                       /\ items[i].y \in 0..(camera.vsize - 1)
                       /\ items[i].y * image.width + items[i].x = index }) = 1)
    /\ [][/\ phase \in {"render", "done"} => (world' = world /\ camera' = camera)
          /\ image' /= image =>
                /\ phase = "setup" \/ Len(finished) = camera.hsize * camera.vsize
                /\ finished' = finished]_vars
    /\ (phase = "render") ~> (phase = "done")

\* a render of two rows and two columns is done, the pixel of the last row and
\* column having been computed first
C25_Witness ==
    /\ phase = "done"
    /\ camera.hsize = 2 /\ camera.vsize = 2
    /\ finished[1].x = 1 /\ finished[1].y = 1
    /\ items[4] = finished[1]
    /\ Len(world.objects) > 0 /\ Len(world.lights) > 0

\* C26: when several intersections share the least non-negative t, hit()
\* returns the one of them that comes first in the collection.
C26_HitIsFirstOfTies ==
    (hit_out.called /\ hit_out.res.some) =>
        LET least == { i \in 1..Len(xs) :
                         /\ xs[i].t >= 0
                         /\ \A j \in 1..Len(xs) : xs[j].t >= 0 => xs[i].t <= xs[j].t }
            first == CHOOSE i \in least : \A j \in least : i <= j
        IN  hit_out.res.val = xs[first]

\* C27: lhs * rhs does not panic, the product has the rows of lhs and the
\* columns of rhs, and its entry (r, c) is the sum over k of
\* lhs[r][k] * rhs[k][c], for operands that are not square as for square ones.
C27_MulIsTheStandardProduct ==
    (m_out.called /\ m_out.op = "mul") =>
        LET lhs == m_out.res.lhs
            rhs == m_out.res.rhs
            out == m_out.res.out
        IN  /\ ~out.panicked
            /\ Len(out.val) = Len(lhs)
            /\ \A r \in 1..Len(out.val) : Len(out.val[r]) = Len(rhs[1])
            /\ \A r \in 1..Len(lhs), c \in 1..Len(rhs[1]) :
                   out.val[r][c] =
                       Sum([k \in 1..Len(rhs) |-> fmul(lhs[r][k], rhs[k][c])])

====
